---- MODULE Spec2Model ----
(***************************************************************************)
(* Model of pastry-labs/firebird-matic-sdk:                                *)
(*   src/entities/token.ts  Token, currencyEquals, well-known token tables *)
(*   fetcher                Fetcher.fetchTokenData, Fetcher.fetchPairData  *)
(*                          and the module-level TOKEN_DECIMALS_CACHE      *)
(*                                                                         *)
(* A string is a sequence of one-character strings, so that toLowerCase    *)
(* and the relational operator < of JavaScript can be computed character   *)
(* by character.  The constant "0x" prefix of an address is left out.      *)
(***************************************************************************)
EXTENDS Integers, Sequences, FiniteSets, TLC

VARIABLES
    \* --- entities/token.ts exercised on a pair of currencies ---
    argA, argB,        \* the two constructor inputs
    objA, objB,        \* the two Currency objects built from them
    tpc,               \* "args" | "built" | "threw" | "called"
    tres,              \* outcome of the last operation, both argument orders
    \* --- Fetcher.fetchTokenData ---
    TOKEN_DECIMALS_CACHE,  \* chainId -> (address -> decimals)
    fpc,               \* per call: "idle" | "awaiting" | "resolved" | "rejected"
    fargs,             \* per call: [chainId, address]
    fret,              \* per call: the Token the promise resolved to
    liveLookups,       \* per call: decimals() requests issued to the provider
    liveResults,       \* (chainId, address, decimals) answered by the provider
    \* --- Fetcher.fetchPairData ---
    ppc,               \* "idle" | "awaiting" | "returned" | "threw"
    pargs,             \* [tokenA, tokenB, ratioA, swapFee]
    paddress,          \* the address derived by Pair.getAddress
    panswer,           \* what getReserves() answered
    pret,              \* the Pair the promise resolved to
    perr,              \* the error the promise rejected with
    reserveRequests    \* getReserves() requests issued, in order

tokenVars == <<argA, argB, objA, objB, tpc, tres>>
fetchVars == <<TOKEN_DECIMALS_CACHE, fpc, fargs, fret, liveLookups, liveResults>>
pairVars  == <<ppc, pargs, paddress, panswer, pret, perr, reserveRequests>>
vars      == <<tokenVars, fetchVars, pairVars>>

----------------------------------------------------------------------------
(* Bounds *)

\* length of the addresses drawn as inputs
AddrLen == 2
\* number of fetchTokenData calls that may be in flight together
NumCalls == 2
\* largest reserve the pool contract answers with
MaxReserve == 2

\* characters the drawn addresses are made of: letters in both cases and
\* one character that is not a hexadecimal digit
RawChars == {"a", "A", "b", "B", "g"}

----------------------------------------------------------------------------
(* Strings *)

\* UTF-16 code unit of a character
CodeUnit(c) ==
    CASE c = "0" -> 48 [] c = "1" -> 49 [] c = "2" -> 50 [] c = "3" -> 51
      [] c = "4" -> 52 [] c = "5" -> 53 [] c = "6" -> 54 [] c = "7" -> 55
      [] c = "8" -> 56 [] c = "9" -> 57
      [] c = "A" -> 65 [] c = "B" -> 66 [] c = "C" -> 67 [] c = "D" -> 68
      [] c = "E" -> 69 [] c = "F" -> 70
      [] c = "a" -> 97 [] c = "b" -> 98 [] c = "c" -> 99 [] c = "d" -> 100
      [] c = "e" -> 101 [] c = "f" -> 102 [] c = "g" -> 103

UpperLetters == {"A", "B", "C", "D", "E", "F"}
LowerLetters == {"a", "b", "c", "d", "e", "f"}
Digits == {"0", "1", "2", "3", "4", "5", "6", "7", "8", "9"}

ToLowerChar(c) ==
    CASE c = "A" -> "a" [] c = "B" -> "b" [] c = "C" -> "c"
      [] c = "D" -> "d" [] c = "E" -> "e" [] c = "F" -> "f"
      [] OTHER -> c

ToUpperChar(c) ==
    CASE c = "a" -> "A" [] c = "b" -> "B" [] c = "c" -> "C"
      [] c = "d" -> "D" [] c = "e" -> "E" [] c = "f" -> "F"
      [] OTHER -> c

\* String.prototype.toLowerCase
toLowerCase(s) == [i \in 1..Len(s) |-> ToLowerChar(s[i])]

\* the relational operator < on two strings: the first differing code unit
\* decides, a proper prefix is smaller
StrLess(s, t) ==
    \/ \E i \in 1..Len(s) :
          /\ i <= Len(t)
          /\ CodeUnit(s[i]) < CodeUnit(t[i])
          /\ \A j \in 1..(i - 1) : s[j] = t[j]
    \/ /\ Len(s) < Len(t)
       /\ \A j \in 1..Len(s) : s[j] = t[j]

----------------------------------------------------------------------------
(* Address literals of the source *)

\* 0x0d500b1d8e8ef31e21c99d1db9a6444d3adf1270
Addr_WMATIC_MATIC ==
    << "0", "d", "5", "0", "0", "b", "1", "d", "8", "e",
       "8", "e", "f", "3", "1", "e", "2", "1", "c", "9",
       "9", "d", "1", "d", "b", "9", "a", "6", "4", "4",
       "4", "d", "3", "a", "d", "f", "1", "2", "7", "0" >>

\* 0x9c3C9283D3e44854697Cd22D3Faa240Cfb032889
Addr_WMATIC_MATICTESTNET ==
    << "9", "c", "3", "C", "9", "2", "8", "3", "D", "3",
       "e", "4", "4", "8", "5", "4", "6", "9", "7", "C",
       "d", "2", "2", "D", "3", "F", "a", "a", "2", "4",
       "0", "C", "f", "b", "0", "3", "2", "8", "8", "9" >>

\* 0x7ceB23fD6bC0adD59E62ac25578270cFf1b9f619
Addr_WETH_MATIC ==
    << "7", "c", "e", "B", "2", "3", "f", "D", "6", "b",
       "C", "0", "a", "d", "D", "5", "9", "E", "6", "2",
       "a", "c", "2", "5", "5", "7", "8", "2", "7", "0",
       "c", "F", "f", "1", "b", "9", "f", "6", "1", "9" >>

\* 0xbb4CdB9CBd36B01bD1cBaEBF2De08d9173bc095c
Addr_BNB_BSC ==
    << "b", "b", "4", "C", "d", "B", "9", "C", "B", "d",
       "3", "6", "B", "0", "1", "b", "D", "1", "c", "B",
       "a", "E", "B", "F", "2", "D", "e", "0", "8", "d",
       "9", "1", "7", "3", "b", "c", "0", "9", "5", "c" >>

\* 0xd78c475133731cd54dadcb430f7aae4f03c1e660
Addr_HOPE_MATIC ==
    << "d", "7", "8", "c", "4", "7", "5", "1", "3", "3",
       "7", "3", "1", "c", "d", "5", "4", "d", "a", "d",
       "c", "b", "4", "3", "0", "f", "7", "a", "a", "e",
       "4", "f", "0", "3", "c", "1", "e", "6", "6", "0" >>

\* 0xd78C475133731CD54daDCb430F7aAE4F03C1E660
Addr_HOPE_BSC ==
    << "d", "7", "8", "C", "4", "7", "5", "1", "3", "3",
       "7", "3", "1", "C", "D", "5", "4", "d", "a", "D",
       "C", "b", "4", "3", "0", "F", "7", "a", "A", "E",
       "4", "F", "0", "3", "C", "1", "E", "6", "6", "0" >>

\* 0xE0B7927c4aF23765Cb51314A0E0521A9645F0E2A
Addr_DGD ==
    << "E", "0", "B", "7", "9", "2", "7", "c", "4", "a",
       "F", "2", "3", "7", "6", "5", "C", "b", "5", "1",
       "3", "1", "4", "A", "0", "E", "0", "5", "2", "1",
       "A", "9", "6", "4", "5", "F", "0", "E", "2", "A" >>

----------------------------------------------------------------------------
(* utils: validateAndParseAddress *)

HexChars == Digits \cup UpperLetters \cup LowerLetters

RECURSIVE WeightedSum(_, _)
WeightedSum(s, i) ==
    IF i = 0 THEN 0 ELSE CodeUnit(s[i]) * i + WeightedSum(s, i - 1)

\* the digest of the lower-case address.  The checksum is a function of
\* the lower-case address only; a positional sum stands in for the hash.
Digest(lower) == WeightedSum(lower, Len(lower))

\* nibble i of a digest
DigestNibble(digest, i) == (digest + 7 * i) % 16

\* the checksummed form: each letter is upper case iff its digest nibble
\* is at least 8
getAddress(s) ==
    LET lower == toLowerCase(s)
        digest == Digest(lower)
    IN [i \in 1..Len(s) |->
          IF DigestNibble(digest, i) >= 8 THEN ToUpperChar(lower[i]) ELSE lower[i]]

\* validateAndParseAddress: the checksummed address, or a throw for a
\* malformed identifier
validateAndParseAddress(address) ==
    IF \A i \in 1..Len(address) : address[i] \in HexChars
    THEN [ok |-> TRUE, value |-> getAddress(address)]
    ELSE [ok |-> FALSE, value |-> << >>]

----------------------------------------------------------------------------
(* entities/token.ts *)

\* the members of ChainId the source uses
ChainId == {"MATIC", "MATICTESTNET", "BSC"}

NoObj ==
    [kind |-> "none", ref |-> <<"none", "none">>, chainId |-> "none",
     address |-> << >>, decimals |-> 0, symbol |-> "", name |-> ""]

\* a Currency that is not a Token; ref is the object's identity
Currency(ref, decimals, symbol, name) ==
    [kind |-> "Currency", ref |-> ref, chainId |-> "none",
     address |-> << >>, decimals |-> decimals, symbol |-> symbol, name |-> name]

\* new Token(chainId, address, decimals, symbol, name); ref is the identity
\* of the object created
Token(ref, chainId, address, decimals, symbol, name) ==
    LET parsed == validateAndParseAddress(address) IN
    IF parsed.ok
    THEN [ok |-> TRUE,
          obj |-> [kind |-> "Token", ref |-> ref, chainId |-> chainId,
                   address |-> parsed.value, decimals |-> decimals,
                   symbol |-> symbol, name |-> name]]
    ELSE [ok |-> FALSE, obj |-> NoObj]

Returned(b) == [threw |-> "none", value |-> b]
Thrown(msg) == [threw |-> msg, value |-> FALSE]

\* a plausible slip: the chain is not compared
Token_equals_NoChain(this, other) ==
    IF this.ref = other.ref
    THEN Returned(TRUE)
    ELSE Returned(this.address = other.address)

Token_equals(this, other) ==
    IF this.ref = other.ref
    THEN Returned(TRUE)
    ELSE Returned(this.chainId = other.chainId /\ this.address = other.address)

\* a plausible slip: only the receiver is lower-cased
Token_sortsBefore_HalfLower(this, other) ==
    IF this.chainId # other.chainId THEN Thrown("CHAIN_IDS")
    ELSE IF this.address = other.address THEN Thrown("ADDRESSES")
    ELSE Returned(StrLess(toLowerCase(this.address), other.address))

\* a plausible slip: the chain precondition is missing
Token_sortsBefore_NoChainCheck(this, other) ==
    IF this.address = other.address THEN Thrown("ADDRESSES")
    ELSE Returned(StrLess(toLowerCase(this.address), toLowerCase(other.address)))

Token_sortsBefore(this, other) ==
    IF this.chainId # other.chainId THEN Thrown("CHAIN_IDS")
    ELSE IF this.address = other.address THEN Thrown("ADDRESSES")
    ELSE Returned(StrLess(toLowerCase(this.address), toLowerCase(other.address)))

currencyEquals(currencyA, currencyB) ==
    IF currencyA.kind = "Token" /\ currencyB.kind = "Token"
    THEN Token_equals(currencyA, currencyB)
    ELSE IF currencyA.kind = "Token" THEN Returned(FALSE)
    ELSE IF currencyB.kind = "Token" THEN Returned(FALSE)
    ELSE Returned(currencyA.ref = currencyB.ref)

WMATIC ==
    [k \in {"MATIC", "MATICTESTNET"} |->
        IF k = "MATIC"
        THEN Token(<<"WMATIC", k>>, "MATIC", Addr_WMATIC_MATIC, 18,
                   "WMATIC", "Wrapped MATIC").obj
        ELSE Token(<<"WMATIC", k>>, "MATICTESTNET", Addr_WMATIC_MATICTESTNET, 18,
                   "WMATIC", "Wrapped MATIC").obj]

WETH ==
    [k \in {"MATIC"} |->
        Token(<<"WETH", k>>, "MATIC", Addr_WETH_MATIC, 18, "WETH", "Wrapped ETH").obj]

BNB ==
    [k \in {"BSC"} |->
        Token(<<"BNB", k>>, "BSC", Addr_BNB_BSC, 18, "WBNB", "Wrapped BNB").obj]

HOPE ==
    [k \in {"MATIC", "BSC"} |->
        IF k = "MATIC"
        THEN Token(<<"HOPE", k>>, "MATIC", Addr_HOPE_MATIC, 18,
                   "HOPE", "Firebird HOPE").obj
        ELSE Token(<<"HOPE", k>>, "MATIC", Addr_HOPE_BSC, 18,
                   "HOPE-P", "Firebird HOPE-P").obj]

TableNames == {"WMATIC", "WETH", "BNB", "HOPE"}

Table(t) ==
    CASE t = "WMATIC" -> WMATIC [] t = "WETH" -> WETH
      [] t = "BNB" -> BNB [] t = "HOPE" -> HOPE

----------------------------------------------------------------------------
(* The token operations applied to a pair of currencies *)

RECURSIVE Strings(_)
\* all strings of length n over RawChars
Strings(n) ==
    IF n = 0 THEN {<< >>}
    ELSE {Append(s, c) : s \in Strings(n - 1), c \in RawChars}

\* chains the drawn tokens live on
DrawnChains == {"MATIC", "BSC"}

NoArg == [kind |-> "none", table |-> "", key |-> "", address |-> << >>]

\* inputs: a new Token, an entry of a well-known table, a native currency
NewArgs ==
    {[kind |-> "new", table |-> "", key |-> c, address |-> a] :
        c \in DrawnChains, a \in Strings(AddrLen)}
TableArgs ==
    UNION {{[kind |-> "table", table |-> t, key |-> k, address |-> << >>] :
                k \in DOMAIN Table(t)} : t \in TableNames}
NativeArgs ==
    {[kind |-> "native", table |-> n, key |-> "", address |-> << >>] :
        n \in {"ETHER", "OTHER"}}
\* the second operand may be the very object the first one is
SameArg == [kind |-> "same", table |-> "", key |-> "", address |-> << >>]

Args == NewArgs \cup TableArgs \cup NativeArgs

\* the object an input denotes; id tells fresh objects apart
Make(arg, id) ==
    CASE arg.kind = "new" ->
            Token(<<"new", id>>, arg.key, arg.address, 18, "", "")
      [] arg.kind = "table" ->
            [ok |-> TRUE, obj |-> Table(arg.table)[arg.key]]
      [] arg.kind = "native" ->
            [ok |-> TRUE, obj |-> Currency(<<"native", arg.table>>, 18, arg.table, arg.table)]

NoRes == [op |-> "none", ab |-> Thrown("none"), ba |-> Thrown("none")]

\* both objects are constructed
Build ==
    /\ tpc = "args"
    /\ LET a == Make(argA, "1")
           b == IF argB.kind = "same" THEN a ELSE Make(argB, "2")
       IN /\ a.ok /\ b.ok
          /\ objA' = a.obj
          /\ objB' = b.obj
          /\ tpc' = "built"
    /\ UNCHANGED <<argA, argB, tres, fetchVars, pairVars>>

\* a constructor throws on a malformed address
BuildThrows ==
    /\ tpc = "args"
    /\ LET a == Make(argA, "1")
           b == IF argB.kind = "same" THEN a ELSE Make(argB, "2")
       IN ~(a.ok /\ b.ok)
    /\ tpc' = "threw"
    /\ UNCHANGED <<argA, argB, objA, objB, tres, fetchVars, pairVars>>

CallSortsBefore ==
    /\ tpc = "built"
    /\ objA.kind = "Token" /\ objB.kind = "Token"
    /\ tres' = [op |-> "sortsBefore",
                ab |-> Token_sortsBefore(objA, objB),
                ba |-> Token_sortsBefore(objB, objA)]
    /\ tpc' = "called"
    /\ UNCHANGED <<argA, argB, objA, objB, fetchVars, pairVars>>

CallEquals ==
    /\ tpc = "built"
    /\ objA.kind = "Token" /\ objB.kind = "Token"
    /\ tres' = [op |-> "equals",
                ab |-> Token_equals(objA, objB),
                ba |-> Token_equals(objB, objA)]
    /\ tpc' = "called"
    /\ UNCHANGED <<argA, argB, objA, objB, fetchVars, pairVars>>

CallCurrencyEquals ==
    /\ tpc = "built"
    /\ tres' = [op |-> "currencyEquals",
                ab |-> currencyEquals(objA, objB),
                ba |-> currencyEquals(objB, objA)]
    /\ tpc' = "called"
    /\ UNCHANGED <<argA, argB, objA, objB, fetchVars, pairVars>>

NextToken ==
    \/ Build
    \/ BuildThrows
    \/ CallSortsBefore
    \/ CallEquals
    \/ CallCurrencyEquals

----------------------------------------------------------------------------
(* Fetcher.fetchTokenData and TOKEN_DECIMALS_CACHE *)

\* slots for fetchTokenData calls; a settled slot takes the next call
Calls == 1..NumCalls

\* the (chainId, address) pairs fetchTokenData is called with: the static
\* override, the same address on another chain and a second address on the
\* override's chain
FetchKeys ==
    {[chainId |-> "MATIC", address |-> Addr_DGD],
     [chainId |-> "BSC", address |-> Addr_DGD],
     [chainId |-> "MATIC", address |-> <<"a", "B">>]}

\* the values decimals() answers with
DecimalsValues == {6, 18}

NoKey == [chainId |-> "none", address |-> << >>]

\* initial value of TOKEN_DECIMALS_CACHE
InitialCache == "MATIC" :> (Addr_DGD :> 9)

\* TOKEN_DECIMALS_CACHE?.[chainId], an absent chain spreads as {}
Inner(cache, chainId) ==
    IF chainId \in DOMAIN cache THEN cache[chainId] ELSE << >>

\* a plausible slip: the type name is misspelt and never matches
CacheHit_Never(cache, chainId, address) == FALSE

\* typeof TOKEN_DECIMALS_CACHE?.[chainId]?.[address] === 'number'
CacheHit(cache, chainId, address) ==
    address \in DOMAIN Inner(cache, chainId)

\* a plausible slip: the entries of the chain are not spread
CacheStore_NoInnerSpread(cache, chainId, address, decimals) ==
    (chainId :> (address :> decimals)) @@ cache

\* { ...cache, [chainId]: { ...cache?.[chainId], [address]: decimals } }
CacheStore(cache, chainId, address, decimals) ==
    (chainId :> ((address :> decimals) @@ Inner(cache, chainId))) @@ cache

Settled == {"idle", "resolved", "rejected"}

\* fetchTokenData(chainId, address) finds the entry: no await is reached
\* and the Token is constructed at once
FetchCallHit(p, k) ==
    /\ fpc[p] \in Settled
    /\ CacheHit(TOKEN_DECIMALS_CACHE, k.chainId, k.address)
    /\ LET t == Token(<<"fetched", ToString(p)>>, k.chainId, k.address,
                      TOKEN_DECIMALS_CACHE[k.chainId][k.address], "", "")
       IN /\ fpc' = [fpc EXCEPT ![p] = IF t.ok THEN "resolved" ELSE "rejected"]
          /\ fret' = [fret EXCEPT ![p] = t.obj]
    /\ fargs' = [fargs EXCEPT ![p] = k]
    /\ liveLookups' = [liveLookups EXCEPT ![p] = 0]
    /\ UNCHANGED <<TOKEN_DECIMALS_CACHE, liveResults, tokenVars, pairVars>>

\* fetchTokenData(chainId, address) finds no entry: decimals() is requested
\* and the call awaits the answer
FetchCallMiss(p, k) ==
    /\ fpc[p] \in Settled
    /\ ~CacheHit(TOKEN_DECIMALS_CACHE, k.chainId, k.address)
    /\ fpc' = [fpc EXCEPT ![p] = "awaiting"]
    /\ fargs' = [fargs EXCEPT ![p] = k]
    /\ fret' = [fret EXCEPT ![p] = NoObj]
    /\ liveLookups' = [liveLookups EXCEPT ![p] = 1]
    /\ UNCHANGED <<TOKEN_DECIMALS_CACHE, liveResults, tokenVars, pairVars>>

\* the .then callback: the cache as it is now is rebuilt with the entry
LookupSucceeds(p, decimals) ==
    /\ fpc[p] = "awaiting"
    /\ TOKEN_DECIMALS_CACHE' =
          CacheStore(TOKEN_DECIMALS_CACHE, fargs[p].chainId, fargs[p].address, decimals)
    /\ liveResults' = liveResults \cup {fargs[p]}
    /\ fpc' = [fpc EXCEPT ![p] = "stored"]
    \* parsedDecimals, held in the Token to be
    /\ fret' = [fret EXCEPT ![p] = [NoObj EXCEPT !.decimals = decimals]]
    /\ UNCHANGED <<fargs, liveLookups, tokenVars, pairVars>>

\* decimals() rejects: the callback never runs, the call rejects
LookupFails(p) ==
    /\ fpc[p] = "awaiting"
    /\ fpc' = [fpc EXCEPT ![p] = "rejected"]
    /\ UNCHANGED <<TOKEN_DECIMALS_CACHE, fargs, fret, liveLookups, liveResults,
                   tokenVars, pairVars>>

\* the continuation of the await: new Token(...)
FetchReturn(p) ==
    /\ fpc[p] = "stored"
    /\ LET t == Token(<<"fetched", ToString(p)>>, fargs[p].chainId, fargs[p].address,
                      fret[p].decimals, "", "")
       IN /\ fpc' = [fpc EXCEPT ![p] = IF t.ok THEN "resolved" ELSE "rejected"]
          /\ fret' = [fret EXCEPT ![p] = t.obj]
    /\ UNCHANGED <<TOKEN_DECIMALS_CACHE, fargs, liveLookups, liveResults,
                   tokenVars, pairVars>>

NextFetchToken ==
    \/ \E p \in Calls, k \in FetchKeys : FetchCallHit(p, k)
    \/ \E p \in Calls, k \in FetchKeys : FetchCallMiss(p, k)
    \/ \E p \in Calls, d \in DecimalsValues : LookupSucceeds(p, d)
    \/ \E p \in Calls : LookupFails(p)
    \/ \E p \in Calls : FetchReturn(p)

----------------------------------------------------------------------------
(* Pair and TokenAmount, as far as fetchPairData uses them *)

\* defaults of a Pool's weight and fee
DefaultRatio == 50
DefaultSwapFee == 20

NoAddress == [token0 |-> << >>, token1 |-> << >>, ratio |-> 0, swapFee |-> 0]

\* Pair.getAddress: a function of the sorted asset identifiers, the weight
\* and the fee, here the tuple itself; sorting two tokens throws as
\* sortsBefore does
Pair_getAddress(tokenA, tokenB, ratioA, swapFee) ==
    LET before == Token_sortsBefore(tokenA, tokenB) IN
    IF before.threw # "none"
    THEN [threw |-> before.threw, value |-> NoAddress]
    ELSE [threw |-> "none",
          value |-> [token0 |-> IF before.value THEN tokenA.address ELSE tokenB.address,
                     token1 |-> IF before.value THEN tokenB.address ELSE tokenA.address,
                     ratio |-> ratioA,
                     swapFee |-> swapFee]]

\* new TokenAmount(token, amount)
TokenAmount(token, amount) == [token |-> token, raw |-> amount]

NoPair ==
    [tokenAmounts |-> << >>, ratio |-> 0, swapFee |-> 0, address |-> NoAddress]

\* new Pair(tokenAmountA, tokenAmountB, ratioA, swapFee): the amounts are
\* stored in the order of their tokens, the address is the Pool's identity
Pair(tokenAmountA, tokenAmountB, ratioA, swapFee) ==
    LET before == Token_sortsBefore(tokenAmountA.token, tokenAmountB.token) IN
    IF before.threw # "none"
    THEN [threw |-> before.threw, value |-> NoPair]
    ELSE [threw |-> "none",
          value |-> [tokenAmounts |-> IF before.value
                                      THEN <<tokenAmountA, tokenAmountB>>
                                      ELSE <<tokenAmountB, tokenAmountA>>,
                     ratio |-> ratioA,
                     swapFee |-> swapFee,
                     address |-> Pair_getAddress(tokenAmountA.token, tokenAmountB.token,
                                                 ratioA, swapFee).value]]

----------------------------------------------------------------------------
(* Fetcher.fetchPairData *)

\* the tokens fetchPairData is called with
PairTokens(id) ==
    {Token(<<"new", id>>, c, a, 18, "", "").obj :
        c \in DrawnChains, a \in {x \in Strings(AddrLen) : validateAndParseAddress(x).ok}}

\* weights and fees the caller passes; 50 and 20 are what the parameters
\* default to
RatioValues == {50, 80}
SwapFeeValues == {20, 30}

Reserves == 0..MaxReserve

NoError == [message |-> "none", address |-> NoAddress, ratioA |-> 0, swapFee |-> 0]

\* tiny-invariant's throw
InvariantError(msg) ==
    [message |-> msg, address |-> NoAddress, ratioA |-> 0, swapFee |-> 0]

\* a plausible slip: the parameters are left out of the message
ReservesError_NoParams(address, ratioA, swapFee) ==
    [message |-> "Could not get reserves", address |-> address,
     ratioA |-> 0, swapFee |-> 0]

\* the Error thrown from the catch block
ReservesError(address, ratioA, swapFee) ==
    [message |-> "Could not get reserves", address |-> address,
     ratioA |-> ratioA, swapFee |-> swapFee]

\* a plausible slip: the chain precondition is missing
SameChain_Unchecked(tokenA, tokenB) == TRUE

\* the condition of invariant(..., 'CHAIN_ID')
SameChain(tokenA, tokenB) == tokenA.chainId = tokenB.chainId

\* a plausible slip: the reserves are taken in the order answered
Balances_Unordered(tokenA, tokenB, reserves0, reserves1) ==
    LET before == Token_sortsBefore(tokenA, tokenB) IN
    IF before.threw # "none"
    THEN [threw |-> before.threw, value |-> << >>]
    ELSE [threw |-> "none", value |-> <<reserves0, reserves1>>]

\* tokenA.sortsBefore(tokenB) ? [reserves0, reserves1] : [reserves1, reserves0]
Balances(tokenA, tokenB, reserves0, reserves1) ==
    LET before == Token_sortsBefore(tokenA, tokenB) IN
    IF before.threw # "none"
    THEN [threw |-> before.threw, value |-> << >>]
    ELSE [threw |-> "none",
          value |-> IF before.value
                    THEN <<reserves0, reserves1>>
                    ELSE <<reserves1, reserves0>>]

NoPairArgs == [tokenA |-> NoObj, tokenB |-> NoObj, ratioA |-> 0, swapFee |-> 0]
NoAnswer == [status |-> "none", reserves0 |-> 0, reserves1 |-> 0]

\* the invariant on the chains fails
PairCallChainMismatch(tokenA, tokenB, ratioA, swapFee) ==
    /\ ppc = "idle"
    /\ ~SameChain(tokenA, tokenB)
    /\ pargs' = [tokenA |-> tokenA, tokenB |-> tokenB,
                 ratioA |-> ratioA, swapFee |-> swapFee]
    /\ ppc' = "threw"
    /\ perr' = InvariantError("CHAIN_ID")
    /\ UNCHANGED <<paddress, panswer, pret, reserveRequests, tokenVars, fetchVars>>

\* Pair.getAddress throws
PairCallAddressThrows(tokenA, tokenB, ratioA, swapFee) ==
    /\ ppc = "idle"
    /\ SameChain(tokenA, tokenB)
    /\ LET address == Pair_getAddress(tokenA, tokenB, ratioA, swapFee)
       IN /\ address.threw # "none"
          /\ perr' = InvariantError(address.threw)
    /\ pargs' = [tokenA |-> tokenA, tokenB |-> tokenB,
                 ratioA |-> ratioA, swapFee |-> swapFee]
    /\ ppc' = "threw"
    /\ UNCHANGED <<paddress, panswer, pret, reserveRequests, tokenVars, fetchVars>>

\* the address is derived, getReserves() is requested and awaited
PairCallRequest(tokenA, tokenB, ratioA, swapFee) ==
    /\ ppc = "idle"
    /\ SameChain(tokenA, tokenB)
    /\ LET address == Pair_getAddress(tokenA, tokenB, ratioA, swapFee)
       IN /\ address.threw = "none"
          /\ paddress' = address.value
          /\ reserveRequests' = Append(reserveRequests, address.value)
    /\ pargs' = [tokenA |-> tokenA, tokenB |-> tokenB,
                 ratioA |-> ratioA, swapFee |-> swapFee]
    /\ ppc' = "awaiting"
    /\ UNCHANGED <<panswer, pret, perr, tokenVars, fetchVars>>

\* getReserves() rejects: the catch block throws
ReservesFail ==
    /\ ppc = "awaiting"
    /\ panswer' = [status |-> "failed", reserves0 |-> 0, reserves1 |-> 0]
    /\ perr' = ReservesError(paddress, pargs.ratioA, pargs.swapFee)
    /\ ppc' = "threw"
    /\ UNCHANGED <<pargs, paddress, pret, reserveRequests, tokenVars, fetchVars>>

\* getReserves() answers: the balances are ordered and the Pair is built
\* from the two amounts alone
ReservesArrive(reserves0, reserves1) ==
    /\ ppc = "awaiting"
    /\ panswer' = [status |-> "ok", reserves0 |-> reserves0, reserves1 |-> reserves1]
    /\ LET balances == Balances(pargs.tokenA, pargs.tokenB, reserves0, reserves1)
           pair == Pair(TokenAmount(pargs.tokenA, balances.value[1]),
                        TokenAmount(pargs.tokenB, balances.value[2]),
                        DefaultRatio, DefaultSwapFee)
       IN IF balances.threw # "none"
          THEN /\ ppc' = "threw"
               /\ perr' = InvariantError(balances.threw)
               /\ pret' = pret
          ELSE IF pair.threw # "none"
          THEN /\ ppc' = "threw"
               /\ perr' = InvariantError(pair.threw)
               /\ pret' = pret
          ELSE /\ ppc' = "returned"
               /\ pret' = pair.value
               /\ perr' = perr
    /\ UNCHANGED <<pargs, paddress, reserveRequests, tokenVars, fetchVars>>

NextFetchPair ==
    \/ \E a \in PairTokens("1"), b \in PairTokens("2"),
          r \in RatioValues, f \in SwapFeeValues : PairCallChainMismatch(a, b, r, f)
    \/ \E a \in PairTokens("1"), b \in PairTokens("2"),
          r \in RatioValues, f \in SwapFeeValues : PairCallAddressThrows(a, b, r, f)
    \/ \E a \in PairTokens("1"), b \in PairTokens("2"),
          r \in RatioValues, f \in SwapFeeValues : PairCallRequest(a, b, r, f)
    \/ ReservesFail
    \/ \E r0 \in Reserves, r1 \in Reserves : ReservesArrive(r0, r1)

----------------------------------------------------------------------------
(* Specifications *)

\* operands are drawn, nothing is fetched
InitToken ==
    /\ argA \in Args
    /\ argB \in Args \cup {SameArg}
    /\ objA = NoObj
    /\ objB = NoObj
    /\ tpc = "args"
    /\ tres = NoRes
    /\ TOKEN_DECIMALS_CACHE = InitialCache
    /\ fpc = [p \in Calls |-> "idle"]
    /\ fargs = [p \in Calls |-> NoKey]
    /\ fret = [p \in Calls |-> NoObj]
    /\ liveLookups = [p \in Calls |-> 0]
    /\ liveResults = {}
    /\ ppc = "idle"
    /\ pargs = NoPairArgs
    /\ paddress = NoAddress
    /\ panswer = NoAnswer
    /\ pret = NoPair
    /\ perr = NoError
    /\ reserveRequests = << >>

\* no Fetcher call has been made, the cache holds the static override
InitFetcher ==
    /\ argA = NoArg
    /\ argB = NoArg
    /\ objA = NoObj
    /\ objB = NoObj
    /\ tpc = "off"
    /\ tres = NoRes
    /\ TOKEN_DECIMALS_CACHE = InitialCache
    /\ fpc = [p \in Calls |-> "idle"]
    /\ fargs = [p \in Calls |-> NoKey]
    /\ fret = [p \in Calls |-> NoObj]
    /\ liveLookups = [p \in Calls |-> 0]
    /\ liveResults = {}
    /\ ppc = "idle"
    /\ pargs = NoPairArgs
    /\ paddress = NoAddress
    /\ panswer = NoAnswer
    /\ pret = NoPair
    /\ perr = NoError
    /\ reserveRequests = << >>

\* token.ts on drawn operands
SpecToken == InitToken /\ [][NextToken]_vars

\* concurrent fetchTokenData calls over the shared cache
SpecFetchToken == InitFetcher /\ [][NextFetchToken]_vars

\* one fetchPairData call
SpecFetchPair == InitFetcher /\ [][NextFetchPair]_vars

----------------------------------------------------------------------------
(* Properties of entities/token.ts, checked under SpecToken *)

SortsBeforeCalled == tpc = "called" /\ tres.op = "sortsBefore"

\* C1: for two tokens of one chain with distinct addresses sortsBefore
\* throws in neither order and a.sortsBefore(b) = ~b.sortsBefore(a).
C1_SortsBeforeAntisymmetric ==
    (/\ SortsBeforeCalled
     /\ objA.chainId = objB.chainId
     /\ objA.address # objB.address)
    => /\ tres.ab.threw = "none"
       /\ tres.ba.threw = "none"
       /\ tres.ab.value = ~tres.ba.value

\* two same-chain tokens whose order by code units is not their order by
\* lower-cased address
C1_Witness ==
    /\ SortsBeforeCalled
    /\ objA.chainId = objB.chainId
    /\ objA.address # objB.address
    /\ tres.ab.value
    /\ StrLess(objB.address, objA.address)

\* C2: sortsBefore throws when the chains differ, throws ADDRESSES when
\* same-chain tokens have identical addresses, and returns a value only
\* for distinct same-chain tokens.
C2_SortsBeforeThrows ==
    SortsBeforeCalled =>
        \A r \in {tres.ab, tres.ba} :
            /\ objA.chainId # objB.chainId => r.threw = "CHAIN_IDS"
            /\ objA.address = objB.address => r.threw # "none"
            /\ (objA.chainId = objB.chainId /\ objA.address = objB.address)
                  => r.threw = "ADDRESSES"
            /\ r.threw = "none"
                  => (objA.chainId = objB.chainId /\ objA.address # objB.address)

\* two distinct objects of different chains with one address
C2_Witness ==
    /\ SortsBeforeCalled
    /\ objA.ref # objB.ref
    /\ objA.chainId # objB.chainId
    /\ objA.address = objB.address
    /\ tres.ab.threw = "CHAIN_IDS"

\* equality as the data model states it
SameAsset(a, b) ==
    IF a.kind = "Token" /\ b.kind = "Token"
    THEN a.chainId = b.chainId /\ toLowerCase(a.address) = toLowerCase(b.address)
    ELSE IF a.kind = "Token" \/ b.kind = "Token"
    THEN FALSE
    ELSE a.ref = b.ref

\* C3: Token.equals and currencyEquals return, in both argument orders,
\* whether the assets are tokens of one chain with case-insensitively equal
\* addresses or one and the same native object; an object equals itself.
C3_AssetEquality ==
    (tpc = "called" /\ tres.op \in {"equals", "currencyEquals"})
    => /\ tres.ab = Returned(SameAsset(objA, objB))
       /\ tres.ba = Returned(SameAsset(objA, objB))
       /\ objA.ref = objB.ref => tres.ab.value

\* two distinct Token objects built from addresses that differ in case
C3_Witness ==
    /\ tpc = "called"
    /\ tres.op = "currencyEquals"
    /\ objA.kind = "Token" /\ objB.kind = "Token"
    /\ objA.ref # objB.ref
    /\ argA.address # argB.address
    /\ tres.ab.value

\* C10: every entry of a well-known table has the chain it is stored
\* under, and two entries of one table under different keys are unequal.
C10_TablesKeyedByOwnChain ==
    tpc = "built" =>
        /\ argA.kind = "table" => objA.chainId = argA.key
        /\ argB.kind = "table" => objB.chainId = argB.key
        /\ (/\ argA.kind = "table" /\ argB.kind = "table"
            /\ argA.table = argB.table /\ argA.key # argB.key)
              => ~Token_equals(objA, objB).value

----------------------------------------------------------------------------
(* Properties of Fetcher.fetchTokenData, checked under SpecFetchToken *)

\* the table holds a number for the key
HasEntry(cache, k) ==
    /\ k.chainId \in DOMAIN cache
    /\ k.address \in DOMAIN cache[k.chainId]

\* a step in which slot p takes a call
CallStep(p) ==
    /\ fpc[p] \in Settled
    /\ <<fpc[p], fargs[p], fret[p], liveLookups[p]>>'
          # <<fpc[p], fargs[p], fret[p], liveLookups[p]>>

\* C7: a call whose (chainId, address) has an entry issues no live lookup
\* and returns a Token with the entry's decimals; a call without an entry
\* issues exactly one live lookup.
C7_CacheBeforeLookup ==
    [][\A p \in Calls :
          CallStep(p) =>
            LET k == fargs'[p] IN
            IF HasEntry(TOKEN_DECIMALS_CACHE, k)
            THEN /\ liveLookups'[p] = 0
                 /\ fpc'[p] # "awaiting"
                 /\ fpc'[p] = "resolved"
                      => fret'[p].decimals = TOKEN_DECIMALS_CACHE[k.chainId][k.address]
            ELSE /\ liveLookups'[p] = 1
                 /\ fpc'[p] = "awaiting"]_vars

\* a call served from an entry an earlier live lookup stored
C7_Witness ==
    \E p \in Calls :
        /\ fpc[p] = "resolved"
        /\ liveLookups[p] = 0
        /\ fargs[p] \in liveResults
        /\ fret[p].decimals = TOKEN_DECIMALS_CACHE[fargs[p].chainId][fargs[p].address]

AllSettled == \A p \in Calls : fpc[p] \in Settled

OverrideKey == [chainId |-> "MATIC", address |-> Addr_DGD]

\* C9: once all calls have settled every successful live lookup has its
\* entry, the override keeps its value, no step removes an entry and a
\* failing lookup leaves the cache as it is.
C9_NoLostUpdate ==
    /\ [](/\ AllSettled => \A k \in liveResults : HasEntry(TOKEN_DECIMALS_CACHE, k)
          /\ HasEntry(TOKEN_DECIMALS_CACHE, OverrideKey)
          /\ TOKEN_DECIMALS_CACHE["MATIC"][Addr_DGD] = 9)
    /\ [][/\ \A k \in FetchKeys :
                HasEntry(TOKEN_DECIMALS_CACHE, k) => HasEntry(TOKEN_DECIMALS_CACHE', k)
          /\ \A p \in Calls :
                (fpc[p] = "awaiting" /\ fpc'[p] = "rejected")
                   => TOKEN_DECIMALS_CACHE' = TOKEN_DECIMALS_CACHE]_vars

\* all calls settled: one lookup failed and left no entry, another stored
\* its entry next to the override
C9_Witness ==
    /\ AllSettled
    /\ \E p \in Calls : fpc[p] = "rejected" /\ ~HasEntry(TOKEN_DECIMALS_CACHE, fargs[p])
    /\ \E k \in liveResults :
          /\ k.chainId = "MATIC"
          /\ HasEntry(TOKEN_DECIMALS_CACHE, k)
          /\ HasEntry(TOKEN_DECIMALS_CACHE, OverrideKey)

----------------------------------------------------------------------------
(* Properties of Fetcher.fetchPairData, checked under SpecFetchPair *)

LowerFirst(tokenA, tokenB) ==
    StrLess(toLowerCase(tokenA.address), toLowerCase(tokenB.address))

\* C4: in the returned Pair the token with the smaller lower-cased address
\* carries reserve0 and the other token reserve1, whichever was passed
\* first.
C4_ReservesFollowTokenOrder ==
    ppc = "returned" =>
        LET aFirst == LowerFirst(pargs.tokenA, pargs.tokenB)
            lo == IF aFirst THEN pargs.tokenA ELSE pargs.tokenB
            hi == IF aFirst THEN pargs.tokenB ELSE pargs.tokenA
        IN {pret.tokenAmounts[i] : i \in DOMAIN pret.tokenAmounts}
              = {TokenAmount(lo, panswer.reserves0), TokenAmount(hi, panswer.reserves1)}

\* tokenB sorts first and the two reserves differ
C4_Witness ==
    /\ ppc = "returned"
    /\ LowerFirst(pargs.tokenB, pargs.tokenA)
    /\ panswer.reserves0 # panswer.reserves1

\* C5: the returned Pool has the address the reserves were looked up at
\* and the weight and fee of the call.
C5_PoolCarriesLookupParameters ==
    ppc = "returned" =>
        /\ pret.address = paddress
        /\ pret.ratio = pargs.ratioA
        /\ pret.swapFee = pargs.swapFee

\* C6: when the reserve lookup fails the call fails with an error naming
\* the address requested and the ratioA and swapFee of the call; no Pair
\* is returned and the request was issued once.
C6_LookupFailureReported ==
    panswer.status = "failed" =>
        /\ ppc = "threw"
        /\ perr.message = "Could not get reserves"
        /\ perr.address = paddress
        /\ reserveRequests = <<paddress>>
        /\ perr.ratioA = pargs.ratioA
        /\ perr.swapFee = pargs.swapFee
        /\ pret = NoPair

\* a failed lookup for a pool of weight 80 and fee 30
C6_Witness ==
    /\ ppc = "threw"
    /\ panswer.status = "failed"
    /\ pargs.ratioA = 80
    /\ pargs.swapFee = 30
    /\ perr.ratioA = 80

\* C8: a call with tokens of different chains has failed with CHAIN_ID,
\* with no address derived and no reserve lookup issued or answered.
C8_ChainMismatchFirst ==
    (ppc # "idle" /\ pargs.tokenA.chainId # pargs.tokenB.chainId)
    => /\ ppc = "threw"
       /\ perr = InvariantError("CHAIN_ID")
       /\ paddress = NoAddress
       /\ reserveRequests = << >>
       /\ panswer = NoAnswer

\* a mismatch between tokens that would otherwise name a pool
C8_Witness ==
    /\ ppc = "threw"
    /\ pargs.tokenA.chainId # pargs.tokenB.chainId
    /\ pargs.tokenA.address # pargs.tokenB.address
    /\ perr.message = "CHAIN_ID"

====
